---- MODULE Spec2Model ----
(***************************************************************************)
(* Model of pixel-to-coordinate/pixel2coord.py: the calibration loop       *)
(* (detect, estimate rotation, rotate), the scale computation, and the     *)
(* pixel-to-machine-coordinate pass, as the file-mode main program runs    *)
(* them.  OpenCV's segmentation is an input: each detection draws its      *)
(* contour list (enclosing circles, in contour order) from a bounded set.  *)
(* Floating-point values are exact rationals extended with inf and nan,    *)
(* following IEEE-754 / numpy semantics for division by zero.              *)
(***************************************************************************)
EXTENDS Integers, Sequences, FiniteSets, TLC

VARIABLES pc, iterations, image_bot_origin_location, inputimage, i,
          contours, object_pixel_locations, rotation_angle, total_rotation_angle,
          coord_scale, mocs, stdout, shown, exc, log

vars == <<pc, iterations, image_bot_origin_location, inputimage, i,
          contours, object_pixel_locations, rotation_angle, total_rotation_angle,
          coord_scale, mocs, stdout, shown, exc, log>>

(* ---------------------------- bounds ---------------------------------- *)
MaxIter == 3
MaxContours == 3

(* ------------------------ program constants --------------------------- *)
calibration_circle_diameter == 153
calibration_circle_separation == 500
bot_coordinates == <<200, 400>>
camera_offset_coordinates == <<300, 100>>
test_rotation == 20
viewoutputimage == TRUE
threshold == 0

(* ------------------- floating point: rationals + inf/nan -------------- *)
Abs(n) == IF n < 0 THEN -n ELSE n

Sgn(n) == IF n < 0 THEN -1 ELSE IF n > 0 THEN 1 ELSE 0

GCD[a \in Nat, b \in Nat] == IF b = 0 THEN a ELSE GCD[b, a % b]

\* The operations are functions so that an operand is evaluated once, where
\* it is applied; the operators of the same names below apply them.
FloatValues == [k : {"fin", "inf", "nan"}, n : Int, d : Nat]

Rational[n \in Int, d \in Nat] ==
    LET g == GCD[Abs(n), d]
    IN [k |-> "fin", n |-> n \div g, d |-> d \div g]

Fin(n, d) == Rational[n, d]

Float(n) == Fin(n, 1)
Inf == [k |-> "inf", n |-> 1, d |-> 0]
NInf == [k |-> "inf", n |-> -1, d |-> 0]
NaN == [k |-> "nan", n |-> 0, d |-> 0]
SignedInf(s) == IF s < 0 THEN NInf ELSE Inf

Sum[a \in FloatValues, b \in FloatValues] ==
    IF a.k = "nan" \/ b.k = "nan" THEN NaN
    ELSE IF a.k = "inf" /\ b.k = "inf" THEN (IF a.n = b.n THEN a ELSE NaN)
    ELSE IF a.k = "inf" THEN a
    ELSE IF b.k = "inf" THEN b
    ELSE Fin(a.n * (b.d \div GCD[a.d, b.d]) + b.n * (a.d \div GCD[a.d, b.d]),
             (a.d \div GCD[a.d, b.d]) * b.d)

FAdd(a, b) == Sum[a, b]

FNeg(a) == [a EXCEPT !.n = -a.n]

Product[a \in FloatValues, b \in FloatValues] ==
    IF a.k = "nan" \/ b.k = "nan" THEN NaN
    ELSE IF a.k = "inf" \/ b.k = "inf"
         THEN (IF a.n = 0 \/ b.n = 0 THEN NaN ELSE SignedInf(Sgn(a.n) * Sgn(b.n)))
    ELSE Fin(a.n * b.n, a.d * b.d)

FMul(a, b) == Product[a, b]

\* numpy float64 division: x/0 is +-inf, 0/0 is nan, with a warning only.
\* Every zero divisor the program forms is +0.0 (abs(...), x - x, 0 * 2.).
Quotient[a \in FloatValues, b \in FloatValues] ==
    IF a.k = "nan" \/ b.k = "nan" THEN NaN
    ELSE IF a.k = "inf" THEN (IF b.k = "inf" THEN NaN
                              ELSE SignedInf(a.n * (IF b.n < 0 THEN -1 ELSE 1)))
    ELSE IF b.k = "inf" THEN Float(0)
    ELSE IF b.n = 0 THEN (IF a.n = 0 THEN NaN ELSE SignedInf(a.n))
    ELSE Fin(a.n * b.d * Sgn(b.n), a.d * Abs(b.n))

FDiv(a, b) == Quotient[a, b]

FAbs(a) == [a EXCEPT !.n = Abs(a.n)]

IsZero(a) == a.k = "fin" /\ a.n = 0

\* round half to even, as "{:.0f}".format does
RoundHalfEven(n, d) ==
    LET q == n \div d
        r == n - q * d
    IN IF 2 * r < d THEN q
       ELSE IF 2 * r > d THEN q + 1
       ELSE IF q % 2 = 0 THEN q ELSE q + 1

Format0f(a) == IF a.k = "fin" THEN Float(RoundHalfEven(a.n, a.d)) ELSE a

(* ------------------------------ inputs -------------------------------- *)
\* rows, cols of the images read from file (image.shape[:2])
image_shape == <<400, 400>>

\* enclosing circles <<cx, cy, radius>> that cv2.minEnclosingCircle may report
Circles == { <<100, 200, 50>>, <<300, 200, 50>>, <<100, 300, 0>>, <<150, 300, 0>> }

Range(s) == { s[n] : n \in 1..Len(s) }

\* sequences of at most n distinct members of S
RECURSIVE SeqsUpTo(_, _)
SeqsUpTo(S, n) ==
    IF n = 0 THEN { <<>> }
    ELSE LET shorter == SeqsUpTo(S, n - 1)
         IN shorter \cup UNION { { Append(s, c) : c \in S \ Range(s) } : s \in shorter }

\* contour lists cv2.findContours may return, in contour order: separate
\* blobs, so no two enclosing circles coincide
ContourLists == SeqsUpTo(Circles, MaxContours)

\* values of image_bot_origin_location: either axis, or both, at location 1
OriginLocations == { <<0, 1>>, <<1, 0>>, <<1, 1>> }

(* ------------------------- numpy array shapes ------------------------- *)
\* an array is [ndim, data]: ndim 1 holds numbers, ndim 2 holds rows
PyLen(a) == Len(a.data)

\* np.vstack((a, row)): a 1-D array of 3 numbers becomes the first row
VStack(a, row) ==
    IF a.ndim = 1 THEN [ndim |-> 2, data |-> <<a.data, row>>]
    ELSE [ndim |-> 2, data |-> Append(a.data, row)]

\* number of rows after the center row (0 for the bare 1-D center array)
NMarkers(a) == IF a.ndim = 1 THEN 0 ELSE Len(a.data) - 1

(* ----------------------------- findobjects ---------------------------- *)
RECURSIVE StackContours(_, _)
StackContours(a, cnts) ==
    IF cnts = <<>> THEN a
    ELSE StackContours(VStack(a, Head(cnts)), Tail(cnts))

\* mutation: the center kept as a one-row 2-D array
CenterArray2D(shape) ==
    [ndim |-> 2, data |-> << <<shape[2] \div 2, shape[1] \div 2, 0>> >>]

\* np.append(np.array(image.shape[:2][::-1]) / 2, 0): 1-D, Python 2 integer /
CenterArray(shape) ==
    [ndim |-> 1, data |-> <<shape[2] \div 2, shape[1] \div 2, 0>>]

findobjects(shape, cnts) == StackContours(CenterArray(shape), cnts)

(* ------------------------ rotationdetermination ----------------------- *)
\* np.tan at the ratios the inputs can form, to 3 decimals
TanPos(n, d) ==
    CASE n = 0 -> Float(0)
      [] n = 1 /\ d = 2 -> Fin(546, 1000)
      [] n = 2 /\ d = 3 -> Fin(787, 1000)
      [] n = 1 /\ d = 1 -> Fin(1557, 1000)
      [] n = 2 /\ d = 1 -> Fin(-2185, 1000)

NpTan(a) ==
    IF a.k # "fin" THEN NaN
    ELSE IF a.n < 0 THEN FNeg(TanPos(-a.n, a.d)) ELSE TanPos(a.n, a.d)

\* 180. / np.pi to 3 decimals
DegPerRad == Fin(57296, 1000)

\* outcome of rotationdetermination: a value, or the exception it raises
rotationdetermination(opl) ==
    IF opl.ndim = 1
    THEN [kind |-> "raise", exc |-> "TypeError", v |-> NaN]   \* unpack of a scalar
    ELSE IF Len(opl.data) < 3
    THEN [kind |-> "raise", exc |-> "IndexError", v |-> NaN]  \* row 2 is missing
    ELSE LET obj_1 == opl.data[2]
             obj_2 == opl.data[3]
         IN IF Abs(obj_1[2] - obj_2[2]) > threshold
            THEN [kind |-> "value", exc |-> "",
                  v |-> FMul(DegPerRad,
                             NpTan(FDiv(Float(obj_2[2] - obj_1[2]),
                                        Float(obj_2[1] - obj_1[1]))))]
            ELSE [kind |-> "value", exc |-> "", v |-> Float(0)]

(* ----------------------------- rotateimage ---------------------------- *)
\* an image is the file it was read from and the sequence of warps applied
\* to its pixels since; a rotation by exactly 0 is the identity warp
readimage(filename) == [file |-> filename, warps |-> <<>>]

rotateimage(image, angle) ==
    IF IsZero(angle) THEN image
    ELSE [image EXCEPT !.warps = Append(image.warps, angle)]

(* ------------------------------ calibrate ----------------------------- *)
RECURSIVE SumRadius(_, _)
SumRadius(rows, from) ==
    IF from > Len(rows) THEN 0 ELSE rows[from][3] + SumRadius(rows, from + 1)

\* mutation: the average taken over every row, the center row included
AverageRadiusWithCenter(rows) == FDiv(Float(SumRadius(rows, 1)), Float(Len(rows)))

\* np.average(object_pixel_locations[1:, 2])
AverageRadius(rows) == FDiv(Float(SumRadius(rows, 2)), Float(Len(rows) - 1))

None == [kind |-> "None", exc |-> "", v |-> <<>>]

\* mutation: the guard admits a single marker (len > 1, rows [1] and [-1])
calibrateLenAboveOne(opl) ==
    IF PyLen(opl) > 1
    THEN IF opl.ndim = 1
         THEN [kind |-> "raise", exc |-> "IndexError", v |-> <<>>]
         ELSE LET object_sep == FAbs(Float(opl.data[2][1] - opl.data[Len(opl.data)][1]))
                  object_dia == FMul(AverageRadius(opl.data), Float(2))
              IN [kind |-> "value", exc |-> "",
                  v |-> << FDiv(Float(calibration_circle_separation), object_sep),
                           FDiv(Float(calibration_circle_diameter), object_dia) >>]
    ELSE None

calibrate(opl) ==
    IF PyLen(opl) > 2
    THEN IF opl.ndim = 1
         THEN [kind |-> "raise", exc |-> "IndexError", v |-> <<>>] \* [1][0] of a scalar
         ELSE LET object_sep == FAbs(Float(opl.data[2][1] - opl.data[3][1]))
                  object_dia == FMul(AverageRadius(opl.data), Float(2))
              IN [kind |-> "value", exc |-> "",
                  v |-> << FDiv(Float(calibration_circle_separation), object_sep),
                           FDiv(Float(calibration_circle_diameter), object_dia) >>]
    ELSE None

(* --------------------------------- p2c -------------------------------- *)
\* mutation: the sign test inverted
SignOfInverted(origin) == [a \in 1..2 |-> IF origin[a] = 1 THEN -1 ELSE 1]

SignOf(origin) == [a \in 1..2 |-> IF origin[a] = 1 THEN 1 ELSE -1]

Moc(camera, sign, scale, center, obj) ==
    [a \in 1..2 |->
        FAdd(camera[a],
             FMul(FMul(Float(sign[a]), scale[a]), Float(center[a] - obj[a])))]

\* the values the loop of p2c computes, in loop order
P2cLoop(opl, scale, origin) ==
    LET camera == [a \in 1..2 |-> FAdd(Float(bot_coordinates[a]),
                                       Float(camera_offset_coordinates[a]))]
        center == opl.data[1]
    IN [n \in 1..(Len(opl.data) - 1) |->
            Moc(camera, SignOf(origin), scale, center, opl.data[n + 1])]

\* outcome of p2c: the coordinates printed, or the exception raised
p2c(opl, scale, origin) ==
    IF opl.ndim = 1
    THEN [kind |-> "raise", exc |-> "IndexError", v |-> <<>>]  \* [0, :2] of 1-D
    ELSE IF Len(opl.data) > 1 /\ scale.kind # "value"
    THEN [kind |-> "raise", exc |-> "TypeError", v |-> <<>>]   \* list * None
    ELSE [kind |-> "value", exc |-> "", v |-> P2cLoop(opl, scale.v, origin)]

PrintLine(moc) == [a \in 1..2 |-> Format0f(moc[a])]

\* "{:.2f}".format, without forming n * 100
Format2f(a) ==
    IF a.k # "fin" THEN a
    ELSE LET ip == a.n \div a.d
             rem == a.n - ip * a.d
         IN Fin(ip * 100 + RoundHalfEven(rem * 100, a.d), 100)

(* --------------------------- the main program ------------------------- *)
Unbound == [ndim |-> 0, data |-> <<>>]
NoImage == readimage("")
NoException == <<>>

Event(op, v) == [op |-> op, v |-> v]

\* line 119: range(0, iterations) has a next value
LoopContinues(round, n) == round + 1 < n

\* mutation: the final-round test off by one (i != iterations)
SkipRotationOffByOne(round, n) == ~(round # n)

\* line 121: the final round does not estimate or rotate
SkipRotation(round, n) == ~(round # n - 1)

Init ==
    /\ pc = "main"
    /\ iterations \in 1..MaxIter
    /\ image_bot_origin_location \in OriginLocations
    /\ inputimage = NoImage
    /\ i = 0
    /\ contours = <<>>
    /\ object_pixel_locations = Unbound
    /\ rotation_angle = Float(0)
    /\ total_rotation_angle = Float(0)
    /\ coord_scale = None
    /\ mocs = <<>>
    /\ stdout = <<>>
    /\ shown = 0
    /\ exc = NoException
    /\ log = <<>>

\* lines 142-144: read, add the test rotation, enter calibration()
CallCalibration ==
    /\ pc = "main"
    /\ inputimage' = rotateimage(readimage("p2c_test_calibration.jpg"),
                                 Float(test_rotation))
    /\ total_rotation_angle' = Float(0)
    /\ i' = 0
    /\ pc' = "findobjects"
    /\ UNCHANGED <<iterations, image_bot_origin_location, contours, object_pixel_locations,
                   rotation_angle, coord_scale, mocs, stdout, shown, exc, log>>

\* line 120-121: one detection of the loop, and the final-round test
CalFindObjects ==
    /\ pc = "findobjects"
    /\ \E cnts \in ContourLists :
          /\ contours' = cnts
          /\ object_pixel_locations' = findobjects(image_shape, cnts)
    /\ log' = Append(log, Event("findobjects", Float(0)))
    /\ IF ~SkipRotation(i, iterations)
       THEN pc' = "rotationdetermination" /\ i' = i
       ELSE IF LoopContinues(i, iterations)
            THEN pc' = "findobjects" /\ i' = i + 1
            ELSE pc' = "calibrate" /\ i' = i
    /\ UNCHANGED <<iterations, image_bot_origin_location, inputimage,
                   rotation_angle, total_rotation_angle, coord_scale, mocs,
                   stdout, shown, exc>>

\* line 122
CalRotationDetermination ==
    /\ pc = "rotationdetermination"
    /\ \E r \in {rotationdetermination(object_pixel_locations)} :
          IF r.kind = "raise"
          THEN /\ pc' = "raised"
               /\ exc' = <<r.exc, "calibration">>
               /\ UNCHANGED <<rotation_angle, log>>
          ELSE /\ pc' = "rotateimage"
               /\ rotation_angle' = r.v
               /\ log' = Append(log, Event("rotationdetermination", r.v))
               /\ exc' = exc
    /\ UNCHANGED <<iterations, image_bot_origin_location, inputimage, i, contours,
                   object_pixel_locations, total_rotation_angle, coord_scale,
                   mocs, stdout, shown>>

\* lines 123-124, and the loop's increment
CalRotateImage ==
    /\ pc = "rotateimage"
    /\ inputimage' = rotateimage(inputimage, rotation_angle)
    /\ total_rotation_angle' = FAdd(total_rotation_angle, rotation_angle)
    /\ log' = Append(log, Event("rotateimage", rotation_angle))
    /\ IF LoopContinues(i, iterations)
       THEN pc' = "findobjects" /\ i' = i + 1
       ELSE pc' = "calibrate" /\ i' = i
    /\ UNCHANGED <<iterations, image_bot_origin_location, contours, object_pixel_locations,
                   rotation_angle, coord_scale, mocs, stdout, shown, exc>>

\* lines 125-129: report the rotation, compute the scale, show, return
CalCalibrate ==
    /\ pc = "calibrate"
    /\ stdout' = IF ~IsZero(total_rotation_angle)
                 THEN Append(stdout, [t |-> "rotation",
                                      v |-> <<Format2f(total_rotation_angle)>>])
                 ELSE stdout
    /\ log' = Append(log, Event("calibrate", Float(0)))
    /\ \E r \in {calibrate(object_pixel_locations)} :
          IF r.kind = "raise"
          THEN /\ pc' = "raised"
               /\ exc' = <<r.exc, "calibration">>
               /\ UNCHANGED <<coord_scale, shown>>
          ELSE /\ pc' = "returned"
               /\ coord_scale' = r
               /\ shown' = IF viewoutputimage THEN shown + 1 ELSE shown
               /\ exc' = exc
    /\ UNCHANGED <<iterations, image_bot_origin_location, inputimage, i, contours,
                   object_pixel_locations, rotation_angle, total_rotation_angle,
                   mocs>>

\* line 129 and the assignment of line 144: the frame of calibration() is
\* popped, main keeps coord_scale and rotation_angle
CalReturn ==
    /\ pc = "returned"
    /\ rotation_angle' = total_rotation_angle
    /\ total_rotation_angle' = Float(0)
    /\ inputimage' = NoImage
    /\ i' = 0
    /\ contours' = <<>>
    /\ object_pixel_locations' = Unbound
    /\ log' = <<>>
    /\ pc' = "calibrated"
    /\ UNCHANGED <<iterations, image_bot_origin_location, coord_scale, mocs,
                   stdout, shown, exc>>

\* lines 147-149 and test(): rotate, segment, p2c, show
TestPass ==
    /\ pc = "calibrated"
    /\ \E cnts \in ContourLists :
       \E opl \in {findobjects(image_shape, cnts)} :
       \E r \in {p2c(opl, coord_scale, image_bot_origin_location)} :
           /\ inputimage' = rotateimage(rotateimage(readimage("p2c_test_test.jpg"),
                                                    Float(test_rotation)),
                                        rotation_angle)
           /\ contours' = cnts
           /\ object_pixel_locations' = opl
           /\ IF r.kind = "raise"
              THEN /\ pc' = "raised"
                   /\ exc' = <<r.exc, "test">>
                   /\ stdout' = IF r.exc = "TypeError"
                                THEN Append(stdout, [t |-> "header", v |-> <<>>])
                                ELSE stdout
                   /\ UNCHANGED <<mocs, shown>>
              ELSE /\ pc' = "tested"
                   /\ mocs' = r.v
                   /\ stdout' = Append(stdout, [t |-> "header", v |-> <<>>])
                                \o [n \in 1..Len(r.v) |->
                                       [t |-> "xy", v |-> PrintLine(r.v[n])]]
                   /\ shown' = IF viewoutputimage THEN shown + 1 ELSE shown
                   /\ exc' = exc
    /\ UNCHANGED <<iterations, image_bot_origin_location, i, rotation_angle,
                   total_rotation_angle, coord_scale, log>>

\* lines 151-153: the colour-range image is segmented and its circled copy
\* shown; the locations found are discarded
ColorTest ==
    /\ pc = "tested"
    /\ shown' = IF viewoutputimage THEN shown + 1 ELSE shown
    /\ pc' = "done"
    /\ UNCHANGED <<iterations, image_bot_origin_location, inputimage, i, contours,
                   object_pixel_locations, rotation_angle, total_rotation_angle,
                   coord_scale, mocs, stdout, exc, log>>

Next ==
    \/ CallCalibration
    \/ CalFindObjects
    \/ CalRotationDetermination
    \/ CalRotateImage
    \/ CalCalibrate
    \/ CalReturn
    \/ TestPass
    \/ ColorTest

Spec == Init /\ [][Next]_vars

\* the steps of calibration(), lines 116-129
CalibrationStep ==
    \/ CallCalibration
    \/ CalFindObjects
    \/ CalRotationDetermination
    \/ CalRotateImage
    \/ CalCalibrate

\* the program is one thread: a step of calibration() that can be taken is
\* taken
FairSpec == Spec /\ WF_vars(CalibrationStep)

(* ============================== claims ================================ *)
CalibrationPcs == {"findobjects", "rotationdetermination", "rotateimage",
                   "calibrate", "returned"}

\* control is inside calibration(), or left it through an exception
InCalibration ==
    \/ pc \in CalibrationPcs
    \/ pc = "raised" /\ exc[2] = "calibration"

\* calibrate() has been called on the current object_pixel_locations
CalibrateActed ==
    /\ InCalibration
    /\ log # <<>>
    /\ log[Len(log)].op = "calibrate"

Markers(opl) == [n \in 1..NMarkers(opl) |-> opl.data[n + 1]]

RECURSIVE DiameterSum(_)
DiameterSum(ms) == IF ms = <<>> THEN 0 ELSE 2 * Head(ms)[3] + DiameterSum(Tail(ms))

\* f is the float value of the quotient num / den of integers, den >= 0
IsQuotient(f, num, den) ==
    IF den = 0 THEN f = Inf
    ELSE f.k = "fin" /\ f.n * den = num * f.d

ExampleMarkers == << <<100, 200, 50>>, <<300, 200, 50>> >>

\* C1: with at least two markers calibrate returns
\* scale_x = separation / |x(marker 1) - x(marker 2)| and
\* scale_y = diameter / (average of 2 * radius over all markers); for two
\* markers of radius r at x-distance d that is separation/d and
\* diameter/(2r), and 2.5 and 1.53 for the 400x400 example.
C1_ScaleFormula ==
    (pc = "returned" /\ NMarkers(object_pixel_locations) >= 2) =>
        LET ms == Markers(object_pixel_locations)
            d == Abs(ms[1][1] - ms[2][1])
        IN /\ coord_scale.kind = "value"
           /\ IsQuotient(coord_scale.v[1], calibration_circle_separation, d)
           /\ IsQuotient(coord_scale.v[2],
                         calibration_circle_diameter * Len(ms), DiameterSum(ms))
           /\ (Len(ms) = 2 /\ ms[1][3] = ms[2][3] /\ ms[1][3] > 0 /\ d > 0) =>
                 coord_scale.v = << Fin(calibration_circle_separation, d),
                                    Fin(calibration_circle_diameter, 2 * ms[1][3]) >>
           /\ ms = ExampleMarkers => coord_scale.v = << Fin(25, 10), Fin(153, 100) >>

C1_Witness ==
    /\ pc = "returned"
    /\ contours = ExampleMarkers
    /\ coord_scale.kind = "value"
    /\ coord_scale.v = << Fin(5, 2), Fin(153, 100) >>

\* C3: calibrate yields a scale only for at least two markers: with none it
\* raises, with exactly one it returns None, and in neither case is a scale
\* value returned.
C3_NoScaleBelowTwoMarkers ==
    CalibrateActed =>
        /\ NMarkers(object_pixel_locations) = 0 =>
              pc = "raised" /\ exc[1] = "IndexError" /\ coord_scale.kind # "value"
        /\ NMarkers(object_pixel_locations) = 1 =>
              pc = "returned" /\ coord_scale = None
        /\ (pc = "returned" /\ coord_scale.kind = "value") =>
              NMarkers(object_pixel_locations) >= 2

C3_Witness ==
    /\ CalibrateActed
    /\ Len(contours) = 1
    /\ pc = "returned"
    /\ coord_scale = None

\* the test pass has run on the current object_pixel_locations
TestActed ==
    \/ pc \in {"tested", "done"}
    \/ pc = "raised" /\ exc[2] = "test"

CoordinateLines == SelectSeq(stdout, LAMBDA l : l.t = "xy")

\* the transform of the specification, per axis, for marker m
Expected(m, a) ==
    LET sign == IF image_bot_origin_location[a] = 1 THEN 1 ELSE -1
        center == <<image_shape[2] \div 2, image_shape[1] \div 2>>
    IN FAdd(Float(bot_coordinates[a] + camera_offset_coordinates[a]),
            FMul(coord_scale.v[a], Float(sign * (center[a] - m[a]))))

\* C2: the transform emits one machine coordinate per marker, in marker
\* order, each (position + offset) + sign * scale * (center - marker) per
\* axis, with sign +1 where the origin location of the axis is 1, else -1.
C2_TransformFormula ==
    pc \in {"tested", "done"} =>
        /\ Len(mocs) = Len(contours)
        /\ Len(CoordinateLines) = Len(contours)
        /\ \A n \in 1..Len(contours) : \A a \in 1..2 :
              /\ mocs[n][a] = Expected(contours[n], a)
              /\ CoordinateLines[n].v[a] = Format0f(Expected(contours[n], a))

C2_Witness ==
    /\ pc = "tested"
    /\ contours = ExampleMarkers
    /\ image_bot_origin_location = <<1, 0>>
    /\ coord_scale.v = << Fin(5, 2), Fin(153, 100) >>
    /\ mocs = << <<Float(750), Float(500)>>, <<Float(250), Float(500)>> >>

\* C4: the test pass on a detection that holds only the center fails with
\* an error and never completes with an empty coordinate list.
C4_ZeroDetectionsFail ==
    /\ (TestActed /\ contours = <<>>) =>
          /\ pc = "raised"
          /\ exc = <<"IndexError", "test">>
          /\ mocs = <<>>
          /\ CoordinateLines = <<>>
    /\ pc \in {"tested", "done"} => mocs # <<>>

C4_Witness ==
    /\ pc = "raised"
    /\ exc = <<"IndexError", "test">>
    /\ contours = <<>>
    /\ coord_scale.kind = "value"

\* markers 1 and 2 share their x-coordinate, or every radius is zero
Degenerate(opl) ==
    LET ms == Markers(opl)
    IN ms[1][1] = ms[2][1] \/ DiameterSum(ms) = 0

\* C5: when the pixel separation of markers 1 and 2 or the average pixel
\* diameter is zero, calibrate fails explicitly and returns no scale with an
\* infinite or undefined component.
C5_DegenerateGeometryFails ==
    (CalibrateActed /\ NMarkers(object_pixel_locations) >= 2
                    /\ Degenerate(object_pixel_locations)) =>
        /\ pc = "raised"
        /\ coord_scale.kind # "value"

\* the image calibration() was called with
CalibrationInput ==
    rotateimage(readimage("p2c_test_calibration.jpg"), Float(test_rotation))

\* C6: the image handed to each later detection is the unrotated
\* calibration input rotated once by the accumulated total angle.
C6_RotatesFromBaseline ==
    (pc = "findobjects" /\ i >= 1) =>
        inputimage = rotateimage(CalibrationInput, total_rotation_angle)

\* C7: a detection's pixel-location set is a sequence of (x, y, radius)
\* rows: the image center with radius 0, then one row per contour, so
\* 1 + number of contours rows, and one row when there is no contour.
C7_PixelLocationSetShape ==
    object_pixel_locations # Unbound =>
        /\ object_pixel_locations.ndim = 2
        /\ PyLen(object_pixel_locations) = 1 + Len(contours)
        /\ object_pixel_locations.data[1]
              = <<image_shape[2] \div 2, image_shape[1] \div 2, 0>>
        /\ \A n \in 1..Len(contours) :
              object_pixel_locations.data[n + 1] = contours[n]

\* C8: a round of calibration() that detects fewer than two markers aborts
\* the call: no later round, no display, no normal return.
C8_LowRoundAborts ==
    (InCalibration /\ object_pixel_locations # Unbound
                   /\ NMarkers(object_pixel_locations) < 2) =>
        /\ pc \in {"rotationdetermination", "calibrate", "raised"}
        /\ shown = 0

\* arctangent of num / den (den > 0) in degrees, to 3 decimals
ArctanDegrees(num, den) ==
    CASE num = 0 -> Float(0)
      [] num = 1 /\ den = 2 -> Fin(26565, 1000)
      [] num = 2 /\ den = 3 -> Fin(33690, 1000)
      [] num = 1 /\ den = 1 -> Fin(45000, 1000)
      [] num = 2 /\ den = 1 -> Fin(63435, 1000)

\* C10: the rotation estimate is the arctangent of (y2 - y1) / (x2 - x1) in
\* degrees: 0 for equal y, otherwise below 90 degrees in magnitude and of
\* the sign of the quotient.
C10_EstimateIsArctangent ==
    pc = "rotateimage" =>
        LET ms == Markers(object_pixel_locations)
            dy == ms[2][2] - ms[1][2]
            dx == ms[2][1] - ms[1][1]
            q == Fin(Abs(dy), Abs(dx))
        IN /\ dy = 0 => rotation_angle = Float(0)
           /\ (dy # 0 /\ dx # 0) =>
                 /\ rotation_angle.k = "fin"
                 /\ Sgn(rotation_angle.n) = Sgn(dy) * Sgn(dx)
                 /\ Abs(rotation_angle.n) < 90 * rotation_angle.d
                 /\ FAbs(rotation_angle) = ArctanDegrees(q.n, q.d)

RECURSIVE SumEstimates(_)
SumEstimates(events) ==
    IF events = <<>> THEN Float(0)
    ELSE IF Head(events).op = "rotationdetermination"
         THEN FAdd(Head(events).v, SumEstimates(Tail(events)))
         ELSE SumEstimates(Tail(events))

Ops(events) == [n \in 1..Len(events) |-> events[n].op]

RECURSIVE Rounds(_)
Rounds(n) ==
    IF n = 1 THEN <<"findobjects">>
    ELSE <<"findobjects", "rotationdetermination", "rotateimage">> \o Rounds(n - 1)

\* the call returned with at least two markers in every round: N detections,
\* N - 1 estimate-then-rotate steps in strict alternation, the scale of the
\* last detection, and the sum of the estimates as the total angle
C9_AtReturn ==
    (pc = "returned" /\ NMarkers(object_pixel_locations) >= 2) =>
        /\ Ops(log) = Rounds(iterations) \o <<"calibrate">>
        /\ \A n \in 1..Len(log) :
              log[n].op = "rotateimage" => log[n].v = log[n - 1].v
        /\ total_rotation_angle = SumEstimates(log)
        /\ iterations = 1 => total_rotation_angle = Float(0)
        /\ object_pixel_locations = findobjects(image_shape, contours)
        /\ coord_scale.kind = "value"
        /\ IsQuotient(coord_scale.v[1], calibration_circle_separation,
                      Abs(contours[1][1] - contours[2][1]))

\* calibration() is left only by its return, or by an exception of a round
\* that saw fewer than two markers
C9_NoOtherExit ==
    (pc = "raised" /\ exc[2] = "calibration") =>
        NMarkers(object_pixel_locations) < 2

\* C9: a calibration call with N >= 1 rounds of at least two markers each
\* terminates after exactly N detections and N - 1 estimate-then-rotate
\* steps in strict alternation, the last round detecting only; the scale is
\* that of the last detection and the total angle the sum of the estimates.
C9_CalibrationTerminates ==
    /\ [](C9_AtReturn /\ C9_NoOtherExit)
    /\ <>(pc \notin {"main", "findobjects", "rotationdetermination",
                     "rotateimage", "calibrate"})

C9_Witness ==
    /\ pc = "returned"
    /\ iterations = MaxIter
    /\ NMarkers(object_pixel_locations) >= 2
    /\ Len(log) = 3 * MaxIter - 1
    /\ total_rotation_angle.k = "fin"
    /\ total_rotation_angle.n # 0

====
